---- MODULE Spec2Model ----
(***************************************************************************)
(* A model of the drone control programs of this repository:               *)
(*   src/voice_control.py    the interactive menu, the manual loop, the    *)
(*                           enhanced (LLM) voice loop, the basic voice    *)
(*                           loop and the command interpreter;             *)
(*   src/offboard_control.py the scripted square-pattern profile.          *)
(*                                                                         *)
(* One action is the code that runs between two suspension points (an      *)
(* awaited vehicle call or an awaited sleep): asyncio runs it atomically.  *)
(* Python floats are modelled by exact rationals <<numerator, denominator>>*)
(* and text by sequences of one-character strings.                         *)
(*                                                                         *)
(* The vehicle is an external collaborator.  Its offboard.start() either   *)
(* succeeds or raises (mode rejection); its other calls are taken to       *)
(* return normally.  The speech recogniser and the remote interpreter are  *)
(* external too: their outcomes are inputs of the actions.                 *)
(***************************************************************************)
EXTENDS Integers, Sequences, FiniteSets, TLC

(***************************************************************************)
(* Bounds of the exploration.                                              *)
(***************************************************************************)
MaxChoices == 2

MaxCmds == 2

MaxCalls == 2

(***************************************************************************)
(* Exact rational arithmetic (the model of Python's float arithmetic).     *)
(***************************************************************************)
Abs(n) ==
    IF n < 0 THEN -n ELSE n

RECURSIVE Gcd(_, _)
Gcd(a, b) ==
    IF b = 0 THEN a ELSE Gcd(b, a % b)

Norm(n, d) ==
    LET s == IF d < 0 THEN -1 ELSE 1
        g == Gcd(Abs(n), Abs(d))
    IN  <<(s * n) \div g, (s * d) \div g>>

R(n) ==
    <<n, 1>>

RAdd(x, y) ==
    Norm(x[1] * y[2] + y[1] * x[2], x[2] * y[2])

RNeg(x) ==
    <<-x[1], x[2]>>

RSub(x, y) ==
    RAdd(x, RNeg(y))

RMul(x, y) ==
    Norm(x[1] * y[1], x[2] * y[2])

RDiv(x, y) ==
    Norm(x[1] * y[2], x[2] * y[1])

RLt(x, y) ==
    x[1] * y[2] < y[1] * x[2]

RLe(x, y) ==
    x[1] * y[2] <= y[1] * x[2]

RAbs(x) ==
    <<Abs(x[1]), x[2]>>

\* Python's max(a, b): b only when b > a.
PyMax(a, b) ==
    IF RLt(a, b) THEN b ELSE a

\* Python's min(a, b): b only when b < a.
PyMin(a, b) ==
    IF RLt(b, a) THEN b ELSE a

Zero ==
    R(0)

(***************************************************************************)
(* The vehicle collaborator: the last call it received and what the call   *)
(* history implies about its mode.                                         *)
(***************************************************************************)
\* VelocityNedYaw(north, east, down, yaw) / PositionNedYaw(north, east, down, yaw)
NedYaw(n, e, d, yaw) ==
    [north |-> n, east |-> e, down |-> d, yaw |-> yaw]

NoArg ==
    NedYaw(Zero, Zero, Zero, Zero)

SetpointKinds ==
    {"set_velocity_ned", "set_position_ned"}

Call(kind, arg, ok) ==
    [kind |-> kind, arg |-> arg, ok |-> ok]

\* The vehicle after call c.  offboard: an offboard start succeeded and no
\* offboard stop followed.  armed: an arm command was issued (and no disarm).
\* primed: a setpoint was sent since the session began or since the last
\* offboard stop.  startSinceStop: an offboard start was requested since then.
Vehicle(v, c) ==
    [last |-> c,
     connected |-> v.connected \/ c.kind = "connect",
     armed |-> IF c.kind = "arm" THEN TRUE
               ELSE IF c.kind = "disarm" THEN FALSE ELSE v.armed,
     offboard |-> IF c.kind = "offboard.start" /\ c.ok THEN TRUE
                  ELSE IF c.kind = "offboard.stop" THEN FALSE ELSE v.offboard,
     primed |-> IF c.kind \in SetpointKinds THEN TRUE
                ELSE IF c.kind = "offboard.stop" THEN FALSE ELSE v.primed,
     startSinceStop |-> IF c.kind = "offboard.start" THEN TRUE
                        ELSE IF c.kind = "offboard.stop" THEN FALSE
                        ELSE v.startSinceStop]

VehicleInit ==
    [last |-> Call("none", NoArg, TRUE), connected |-> FALSE, armed |-> FALSE,
     offboard |-> FALSE, primed |-> FALSE, startSinceStop |-> FALSE]

SetVelocity(n, e, d, yaw) ==
    Call("set_velocity_ned", NedYaw(n, e, d, yaw), TRUE)

SetPosition(n, e, d, yaw) ==
    Call("set_position_ned", NedYaw(n, e, d, yaw), TRUE)

OffboardStart(ok) ==
    Call("offboard.start", NoArg, ok)

OffboardStop ==
    Call("offboard.stop", NoArg, TRUE)

Action(kind) ==
    Call(kind, NoArg, TRUE)

(***************************************************************************)
(* Text: a Python str is a sequence of one-character strings.              *)
(***************************************************************************)
Uppers ==
    <<"A", "B", "C", "D", "E", "F", "G", "H", "I", "J", "K", "L", "M",
      "N", "O", "P", "Q", "R", "S", "T", "U", "V", "W", "X", "Y", "Z">>

Lowers ==
    <<"a", "b", "c", "d", "e", "f", "g", "h", "i", "j", "k", "l", "m",
      "n", "o", "p", "q", "r", "s", "t", "u", "v", "w", "x", "y", "z">>

LowerChar(c) ==
    IF \E i \in DOMAIN Uppers : Uppers[i] = c
    THEN Lowers[CHOOSE i \in DOMAIN Uppers : Uppers[i] = c]
    ELSE c

\* str.lower()
Lower(s) ==
    [i \in DOMAIN s |-> LowerChar(s[i])]

IsSpace(c) ==
    c = " "

RECURSIVE LStrip(_)
LStrip(s) ==
    IF s # <<>> /\ IsSpace(Head(s)) THEN LStrip(Tail(s)) ELSE s

RECURSIVE RStrip(_)
RStrip(s) ==
    IF s # <<>> /\ IsSpace(s[Len(s)]) THEN RStrip(SubSeq(s, 1, Len(s) - 1)) ELSE s

\* str.strip()
Strip(s) ==
    RStrip(LStrip(s))

\* w in s
Contains(s, w) ==
    \E i \in 1..(Len(s) - Len(w) + 1) : SubSeq(s, i, i + Len(w) - 1) = w

\* s.startswith(w)
StartsWith(s, w) ==
    Len(s) >= Len(w) /\ SubSeq(s, 1, Len(w)) = w

\* s.split(w)[-1]: the text after the last occurrence of w (all of s when
\* w does not occur).
AfterLast(s, w) ==
    LET at == {i \in 1..(Len(s) - Len(w) + 1) : SubSeq(s, i, i + Len(w) - 1) = w}
    IN  IF at = {} THEN s
        ELSE LET m == CHOOSE i \in at : \A j \in at : j <= i
             IN  SubSeq(s, m + Len(w), Len(s))

\* s.split(): the maximal runs of non-space characters.
RECURSIVE SplitFrom(_, _, _)
SplitFrom(s, cur, acc) ==
    IF s = <<>> THEN (IF cur = <<>> THEN acc ELSE Append(acc, cur))
    ELSE IF IsSpace(Head(s))
         THEN SplitFrom(Tail(s), <<>>, IF cur = <<>> THEN acc ELSE Append(acc, cur))
         ELSE SplitFrom(Tail(s), Append(cur, Head(s)), acc)

Split(s) ==
    SplitFrom(s, <<>>, <<>>)

Digits ==
    <<"0", "1", "2", "3", "4", "5", "6", "7", "8", "9">>

IsDigit(c) ==
    \E i \in DOMAIN Digits : Digits[i] = c

DigitVal(c) ==
    (CHOOSE i \in DOMAIN Digits : Digits[i] = c) - 1

AllDigits(s) ==
    \A i \in DOMAIN s : IsDigit(s[i])

RECURSIVE UIntVal(_)
UIntVal(s) ==
    IF s = <<>> THEN 0 ELSE 10 * UIntVal(SubSeq(s, 1, Len(s) - 1)) + DigitVal(s[Len(s)])

RECURSIVE Pow10(_)
Pow10(k) ==
    IF k = 0 THEN 1 ELSE 10 * Pow10(k - 1)

Unsigned(s) ==
    IF s # <<>> /\ Head(s) \in {"+", "-"} THEN Tail(s) ELSE s

SignOf(s) ==
    IF s # <<>> /\ Head(s) = "-" THEN -1 ELSE 1

\* int(s) for a stripped decimal string: [ok |-> FALSE] stands for ValueError.
ParseInt(s) ==
    LET u == Unsigned(s)
    IN  IF u # <<>> /\ AllDigits(u)
        THEN [ok |-> TRUE, v |-> R(SignOf(s) * UIntVal(u))]
        ELSE [ok |-> FALSE, v |-> Zero]

\* float(s) for a decimal string "[sign]digits[.digits]": [ok |-> FALSE]
\* stands for ValueError.
ParseFloat(s) ==
    LET u == Unsigned(s)
        dots == {i \in DOMAIN u : u[i] = "."}
        ip == IF dots = {} THEN u ELSE SubSeq(u, 1, (CHOOSE i \in dots : TRUE) - 1)
        fp == IF dots = {} THEN <<>>
              ELSE SubSeq(u, (CHOOSE i \in dots : TRUE) + 1, Len(u))
    IN  IF Cardinality(dots) <= 1 /\ AllDigits(ip) /\ AllDigits(fp)
           /\ Len(ip) + Len(fp) > 0
        THEN [ok |-> TRUE,
              v |-> Norm(SignOf(s) * (UIntVal(ip) * Pow10(Len(fp)) + UIntVal(fp)),
                         Pow10(Len(fp)))]
        ELSE [ok |-> FALSE, v |-> Zero]

(***************************************************************************)
(* The keywords of the fallback matcher, the basic voice loop and the      *)
(* manual loop.                                                            *)
(***************************************************************************)
W ==
    [
     forward |->
        <<"f", "o", "r", "w", "a", "r", "d">>,
     ahead |->
        <<"a", "h", "e", "a", "d">>,
     front |->
        <<"f", "r", "o", "n", "t">>,
     back |->
        <<"b", "a", "c", "k">>,
     backward |->
        <<"b", "a", "c", "k", "w", "a", "r", "d">>,
     reverse |->
        <<"r", "e", "v", "e", "r", "s", "e">>,
     left |->
        <<"l", "e", "f", "t">>,
     turn |->
        <<"t", "u", "r", "n">>,
     right |->
        <<"r", "i", "g", "h", "t">>,
     up |->
        <<"u", "p">>,
     rise |->
        <<"r", "i", "s", "e">>,
     ascend |->
        <<"a", "s", "c", "e", "n", "d">>,
     down |->
        <<"d", "o", "w", "n">>,
     descend |->
        <<"d", "e", "s", "c", "e", "n", "d">>,
     lower |->
        <<"l", "o", "w", "e", "r">>,
     turn_right |->
        <<"t", "u", "r", "n", " ", "r", "i", "g", "h", "t">>,
     turn_left |->
        <<"t", "u", "r", "n", " ", "l", "e", "f", "t">>,
     land |->
        <<"l", "a", "n", "d">>,
     landing |->
        <<"l", "a", "n", "d", "i", "n", "g">>,
     takeoff |->
        <<"t", "a", "k", "e", "o", "f", "f">>,
     take_off |->
        <<"t", "a", "k", "e", " ", "o", "f", "f">>,
     launch |->
        <<"l", "a", "u", "n", "c", "h">>,
     home |->
        <<"h", "o", "m", "e">>,
     return |->
        <<"r", "e", "t", "u", "r", "n">>,
     rth |->
        <<"r", "t", "h">>,
     stop |->
        <<"s", "t", "o", "p">>,
     halt |->
        <<"h", "a", "l", "t">>,
     hover |->
        <<"h", "o", "v", "e", "r">>,
     exit |->
        <<"e", "x", "i", "t">>,
     quit |->
        <<"q", "u", "i", "t">>,
     end |->
        <<"e", "n", "d">>,
     debug |->
        <<"d", "e", "b", "u", "g">>,
     turn_r |->
        <<"t", "u", "r", "n", "_", "r">>,
     turn_l |->
        <<"t", "u", "r", "n", "_", "l">>,
     turn_b |->
        <<"t", "u", "r", "n", "_", "b">>
    ]


(***************************************************************************)
(* What the speech recogniser can return (a bounded set of utterances).    *)
(***************************************************************************)
U_move_forward_3_meters ==
    <<"m", "o", "v", "e", " ", "f", "o", "r", "w", "a", "r", "d", " ", "3",
      " ", "m", "e", "t", "e", "r", "s">>

(***************************************************************************)
(* JSON documents, as far as the caller of process_speech reads them.      *)
(* shape is the JSON type of the document.  A field of an object is        *)
(* "absent", "null" or a value; distance and angle are the fields of the   *)
(* "parameters" object.                                                    *)
(***************************************************************************)
Absent ==
    [k |-> "absent", v |-> Zero]

Null ==
    [k |-> "null", v |-> Zero]

Num(r) ==
    [k |-> "num", v |-> r]

Doc(shape, flag, action, parameters, distance, angle) ==
    [shape |-> shape, is_drone_command |-> flag, action |-> action,
     parameters |-> parameters, distance |-> distance, angle |-> angle]

\* {"is_drone_command": True, "action": a, "parameters": {...}}
CommandDoc(a, distance, angle) ==
    Doc("object", "true", a, "object", distance, angle)

NotCommandDoc ==
    Doc("object", "false", "absent", "absent", Absent, Absent)

NonObjectDoc(shape) ==
    Doc(shape, "absent", "absent", "absent", Absent, Absent)

(***************************************************************************)
(* DroneCommandProcessor._fallback_processing                              *)
(***************************************************************************)
\* The calls made to the interpreter: the last response of the remote model
\* handed to process_speech (reply), and the utterances handed to
\* _fallback_processing so far with the records it returned.
VARIABLES reply, calls

AnyIn(speech, words) ==
    \E w \in words : Contains(speech, w)

\* A matcher that answers only the first call made to it.
FallbackFirstCallOnly(speech_text) ==
    IF calls = <<>> /\ Contains(Lower(speech_text), W.forward)
    THEN CommandDoc("forward", Num(R(2)), Absent)
    ELSE NotCommandDoc

\* A matcher whose left and right rules do not look for "turn".
FallbackTurnUnguarded(speech_text) ==
    LET speech == Lower(speech_text)
    IN  IF AnyIn(speech, {W.forward, W.ahead, W.front})
        THEN CommandDoc("forward", Num(R(2)), Absent)
        ELSE IF AnyIn(speech, {W.back, W.backward, W.reverse})
        THEN CommandDoc("backward", Num(R(2)), Absent)
        ELSE IF AnyIn(speech, {W.left})
        THEN CommandDoc("left", Num(R(2)), Absent)
        ELSE IF AnyIn(speech, {W.right})
        THEN CommandDoc("right", Num(R(2)), Absent)
        ELSE IF AnyIn(speech, {W.up, W.rise, W.ascend})
        THEN CommandDoc("up", Num(R(2)), Absent)
        ELSE IF AnyIn(speech, {W.down, W.descend, W.lower})
        THEN CommandDoc("down", Num(R(2)), Absent)
        ELSE IF Contains(speech, W.turn_right)
        THEN CommandDoc("turn_right", Absent, Num(R(90)))
        ELSE IF Contains(speech, W.turn_left)
        THEN CommandDoc("turn_left", Absent, Num(R(90)))
        ELSE IF AnyIn(speech, {W.land, W.landing})
        THEN CommandDoc("land", Absent, Absent)
        ELSE IF AnyIn(speech, {W.takeoff, W.take_off, W.launch})
        THEN CommandDoc("takeoff", Absent, Absent)
        ELSE IF AnyIn(speech, {W.home, W.return, W.rth})
        THEN CommandDoc("return_home", Absent, Absent)
        ELSE IF AnyIn(speech, {W.stop, W.halt, W.hover})
        THEN CommandDoc("stop", Absent, Absent)
        ELSE IF AnyIn(speech, {W.exit, W.quit, W.end})
        THEN CommandDoc("exit", Absent, Absent)
        ELSE NotCommandDoc

_fallback_processing(speech_text) ==
    LET speech == Lower(speech_text)
    IN  IF AnyIn(speech, {W.forward, W.ahead, W.front})
        THEN CommandDoc("forward", Num(R(2)), Absent)
        ELSE IF AnyIn(speech, {W.back, W.backward, W.reverse})
        THEN CommandDoc("backward", Num(R(2)), Absent)
        ELSE IF AnyIn(speech, {W.left}) /\ ~Contains(speech, W.turn)
        THEN CommandDoc("left", Num(R(2)), Absent)
        ELSE IF AnyIn(speech, {W.right}) /\ ~Contains(speech, W.turn)
        THEN CommandDoc("right", Num(R(2)), Absent)
        ELSE IF AnyIn(speech, {W.up, W.rise, W.ascend})
        THEN CommandDoc("up", Num(R(2)), Absent)
        ELSE IF AnyIn(speech, {W.down, W.descend, W.lower})
        THEN CommandDoc("down", Num(R(2)), Absent)
        ELSE IF Contains(speech, W.turn_right)
        THEN CommandDoc("turn_right", Absent, Num(R(90)))
        ELSE IF Contains(speech, W.turn_left)
        THEN CommandDoc("turn_left", Absent, Num(R(90)))
        ELSE IF AnyIn(speech, {W.land, W.landing})
        THEN CommandDoc("land", Absent, Absent)
        ELSE IF AnyIn(speech, {W.takeoff, W.take_off, W.launch})
        THEN CommandDoc("takeoff", Absent, Absent)
        ELSE IF AnyIn(speech, {W.home, W.return, W.rth})
        THEN CommandDoc("return_home", Absent, Absent)
        ELSE IF AnyIn(speech, {W.stop, W.halt, W.hover})
        THEN CommandDoc("stop", Absent, Absent)
        ELSE IF AnyIn(speech, {W.exit, W.quit, W.end})
        THEN CommandDoc("exit", Absent, Absent)
        ELSE NotCommandDoc

(***************************************************************************)
(* The remote interpreter's response: generate_content raises, or returns  *)
(* a text, here a sequence of tokens: "fence_json" (three backquotes and  *)
(* the word json), "fence" (three backquotes), "ws" (white space), "prose" *)
(* and "json" (one JSON document).                                         *)
(***************************************************************************)
Tok(t) ==
    [t |-> t, doc |-> NonObjectDoc("null")]

JsonTok(d) ==
    [t |-> "json", doc |-> d]

RECURSIVE LStripToks(_)
LStripToks(s) ==
    IF s # <<>> /\ Head(s).t = "ws" THEN LStripToks(Tail(s)) ELSE s

RECURSIVE RStripToks(_)
RStripToks(s) ==
    IF s # <<>> /\ s[Len(s)].t = "ws"
    THEN RStripToks(SubSeq(s, 1, Len(s) - 1)) ELSE s

StripToks(s) ==
    RStripToks(LStripToks(s))

\* json.loads(text): the text is one JSON document (white space around it
\* is allowed); [ok |-> FALSE] stands for JSONDecodeError.
JsonLoads(s) ==
    LET t == StripToks(s)
    IN  IF Len(t) = 1 /\ t[1].t = "json"
        THEN [ok |-> TRUE, doc |-> t[1].doc]
        ELSE [ok |-> FALSE, doc |-> NonObjectDoc("null")]

(***************************************************************************)
(* DroneCommandProcessor.process_speech                                    *)
(***************************************************************************)
process_speech(speech_text, response) ==
    IF response.raises
    THEN _fallback_processing(speech_text)
    ELSE LET t0 == StripToks(response.text)
             t1 == IF t0 # <<>> /\ Head(t0).t = "fence_json" THEN Tail(t0) ELSE t0
             t2 == IF t1 # <<>> /\ t1[Len(t1)].t = "fence"
                   THEN SubSeq(t1, 1, Len(t1) - 1) ELSE t1
             result == JsonLoads(StripToks(t2))
         IN  IF result.ok THEN result.doc ELSE _fallback_processing(speech_text)

(***************************************************************************)
(* The state.                                                              *)
(*   prog            which program runs: "voice_control" (menu) or         *)
(*                   "offboard_control" (the scripted profile)             *)
(*   llm_processor   menu(): whether the Gemini processor was set up       *)
(*   pc              the statement the program is suspended at             *)
(*   ret             the caller takeoff() returns to                       *)
(*   yaw_heading     the running loop's local yaw_heading                  *)
(*   command_result  enhanced_voice_control's command_result               *)
(*   cmd             the locals of the command being executed, with the    *)
(*                   heading h0 at which it was read, whether its hold     *)
(*                   was slept (held), whether a zero-velocity setpoint    *)
(*                   followed the hold (arrested), and whether the command *)
(*                   handled just before it in the loop was a stop (after) *)
(*   alt             takeoff()'s parameter alt                             *)
(*   hold            the argument of the last maneuver asyncio.sleep       *)
(*   input           the last line typed or utterance recognised           *)
(*   vehicle         the vehicle collaborator                              *)
(*   printed         the diagnostic printed by the last step               *)
(*   failure         the per-command failure met by the last step          *)
(*   rejected        takeoff()/run(): offboard start was rejected in the   *)
(*                   flow begun by the last menu choice                    *)
(*   sumDeltas       the sum of the signed rotations executed since the    *)
(*                   program started                                       *)
(*   wp              run(): the next leg of the square pattern             *)
(*   nChoices, nCmds menu choices made, commands read in the running loop  *)
(***************************************************************************)
VARIABLES prog, llm_processor, pc, ret, yaw_heading, command_result, cmd,
          alt, hold, input, vehicle, printed, failure, rejected, sumDeltas,
          wp, nChoices, nCmds

vars ==
    <<prog, llm_processor, pc, ret, yaw_heading, command_result, cmd, alt,
      hold, input, vehicle, printed, failure, rejected, sumDeltas, wp,
      nChoices, nCmds, reply, calls>>

\* The locals of the running function and its loop.
locals ==
    <<yaw_heading, command_result, cmd, alt, hold, input, nCmds>>

session ==
    <<prog, llm_processor, wp, nChoices>>

NoCmd ==
    [kind |-> "none", action |-> "none", angle |-> Zero, distance |-> Zero,
     speed |-> Zero, duration |-> Zero, h0 |-> Zero,
     held |-> FALSE, arrested |-> FALSE, after |-> "none"]

NoText ==
    <<>>

\* One awaited vehicle call: the program goes on at p, having printed msg.
AwaitAfter(call, p, msg, fail) ==
    /\ vehicle' = Vehicle(vehicle, call)
    /\ pc' = p
    /\ printed' = msg
    /\ failure' = fail
    /\ UNCHANGED <<reply, calls>>

Await(call, p, msg) ==
    AwaitAfter(call, p, msg, "none")

\* The locals die when control returns to the menu.
Forget ==
    /\ yaw_heading' = Zero
    /\ command_result' = NotCommandDoc
    /\ cmd' = NoCmd
    /\ alt' = Num(R(2))
    /\ hold' = Zero
    /\ input' = NoText
    /\ nCmds' = 0

\* A loop goes round: the locals of the command just handled are dead.
Again ==
    /\ command_result' = NotCommandDoc
    /\ cmd' = [NoCmd EXCEPT !.after = IF cmd.action = "stop" THEN "stop"
                                      ELSE "none"]
    /\ hold' = Zero
    /\ input' = NoText

KeepUnlessMenu(p) ==
    IF p = "menu" THEN Forget ELSE UNCHANGED locals

\* A step without a vehicle call.
Goto(p, msg, fail) ==
    /\ vehicle' = vehicle
    /\ pc' = p
    /\ printed' = msg
    /\ failure' = fail
    /\ UNCHANGED <<reply, calls>>

Init ==
    /\ prog \in {"voice_control", "offboard_control"}
    /\ llm_processor \in BOOLEAN
    /\ prog = "offboard_control" => llm_processor = FALSE
    /\ pc = IF prog = "voice_control" THEN "connect" ELSE "run"
    /\ ret = "menu"
    /\ yaw_heading = Zero
    /\ command_result = NotCommandDoc
    /\ cmd = NoCmd
    /\ alt = Num(R(2))
    /\ hold = Zero
    /\ input = NoText
    /\ vehicle = VehicleInit
    /\ printed = "none"
    /\ failure = "none"
    /\ rejected = FALSE
    /\ sumDeltas = Zero
    /\ wp = 1
    /\ nChoices = 0
    /\ nCmds = 0
    /\ reply = [raises |-> FALSE, text |-> <<>>]
    /\ calls = <<>>

(***************************************************************************)
(* voice_control.py: connect, arm, land, return_to_launch                  *)
(***************************************************************************)
\* connect(): returns once connection_state() reports is_connected.
connect ==
    /\ pc = "connect"
    /\ Await(Action("connect"), "menu", "none")
    /\ UNCHANGED <<locals, session, ret, rejected, sumDeltas>>

arm ==
    /\ pc = "arm"
    /\ Await(Action("arm"), "menu", "none")
    /\ UNCHANGED <<locals, session, ret, rejected, sumDeltas>>

\* land(): called by the menu and, after offboard.stop(), by the loops, which
\* then break and return to the menu.
land ==
    /\ pc = "land"
    /\ Await(Action("land"), "menu", "none")
    /\ Forget
    /\ UNCHANGED <<session, ret, rejected, sumDeltas>>

return_to_launch ==
    /\ pc = "return_to_launch"
    /\ Await(Action("return_to_launch"), "menu", "none")
    /\ Forget
    /\ UNCHANGED <<session, ret, rejected, sumDeltas>>

(***************************************************************************)
(* voice_control.py: takeoff(drone, alt)                                   *)
(***************************************************************************)
\* Where takeoff() returns to: the menu, or line 268 of the enhanced loop.
Return(r) ==
    IF r = "enhanced" THEN "e_restart" ELSE "menu"

\* Where an exception raised in takeoff() is caught: the menu's handler, or
\* the enhanced loop's, which goes round.
Handler(r) ==
    IF r = "enhanced" THEN "e_loop" ELSE "menu"

\* A takeoff that requests offboard mode without a setpoint before it.
takeoff_unprimed ==
    /\ pc = "takeoff"
    /\ Goto("takeoff_start", "none", "none")
    /\ UNCHANGED <<locals, session, ret, rejected, sumDeltas>>

takeoff_prime ==
    /\ pc = "takeoff"
    /\ Await(SetVelocity(Zero, Zero, Zero, Zero), "takeoff_start", "none")
    /\ UNCHANGED <<locals, session, ret, rejected, sumDeltas>>

takeoff_start ==
    /\ pc = "takeoff_start"
    /\ \E ok \in BOOLEAN :
        /\ Await(OffboardStart(ok),
                 IF ok THEN "takeoff_ascend" ELSE Return(ret),
                 IF ok THEN "none" ELSE "could_not_start_offboard_for_takeoff")
        /\ rejected' = (rejected \/ ~ok)
        /\ KeepUnlessMenu(IF ok THEN "takeoff_ascend" ELSE Return(ret))
    /\ UNCHANGED <<session, ret, sumDeltas>>

ascent_speed ==
    R(-1)

takeoff_ascend ==
    /\ pc = "takeoff_ascend"
    /\ Await(SetVelocity(Zero, Zero, ascent_speed, Zero), "takeoff_sleep", "none")
    /\ UNCHANGED <<locals, session, ret, rejected, sumDeltas>>

\* asyncio.sleep(alt / abs(ascent_speed)): a TypeError when alt is None.
takeoff_sleep ==
    /\ pc = "takeoff_sleep"
    /\ IF alt.k = "num"
       THEN /\ hold' = RDiv(alt.v, RAbs(ascent_speed))
            /\ Goto("takeoff_zero", "none", "none")
            /\ UNCHANGED <<yaw_heading, command_result, cmd, alt, input, nCmds>>
       ELSE /\ Goto(Handler(ret), "error", "type_error")
            /\ KeepUnlessMenu(Handler(ret))
    /\ UNCHANGED <<session, ret, rejected, sumDeltas>>

takeoff_zero ==
    /\ pc = "takeoff_zero"
    /\ Await(SetVelocity(Zero, Zero, Zero, Zero), Return(ret), "none")
    /\ KeepUnlessMenu(Return(ret))
    /\ UNCHANGED <<session, ret, rejected, sumDeltas>>

(***************************************************************************)
(* voice_control.py: menu()                                                *)
(***************************************************************************)
Choices ==
    {"1", "2", "3", "4", "5", "6", "7", "8"}

MenuTarget(choice) ==
    CASE choice = "1" -> "arm"
      [] choice = "2" -> "takeoff"
      [] choice = "3" -> "manual_control"
      [] choice = "4" -> "return_to_launch"
      [] choice = "5" -> "land"
      [] choice = "6" -> "exit"
      [] choice = "7" -> IF llm_processor THEN "enhanced_voice_control"
                         ELSE "voice_control_basic"
      [] OTHER -> "menu"

menu ==
    /\ pc = "menu"
    /\ nChoices < MaxChoices
    /\ \E choice \in Choices :
        /\ Goto(MenuTarget(choice),
                IF MenuTarget(choice) = "menu" THEN "invalid_option" ELSE "none",
                "none")
    /\ nChoices' = nChoices + 1
    /\ ret' = "menu"
    /\ rejected' = FALSE
    /\ UNCHANGED <<locals, prog, llm_processor, wp, sumDeltas>>

\* Choice 6: offboard.stop() inside try/except: pass, then break.
menu_exit ==
    /\ pc = "exit"
    /\ Await(OffboardStop, "done", "none")
    /\ UNCHANGED <<locals, session, ret, rejected, sumDeltas>>

(***************************************************************************)
(* offboard_control.py: run()                                              *)
(***************************************************************************)
\* The legs of the square pattern: PositionNedYaw(north, east, down, yaw).
Square ==
    <<SetPosition(R(0), R(0), R(-5), Zero),
      SetPosition(R(5), R(0), R(-5), Zero),
      SetPosition(R(5), R(5), R(-5), Zero),
      SetPosition(R(0), R(5), R(-5), Zero),
      SetPosition(R(0), R(0), R(-5), Zero)>>

\* connect, then wait for is_connected and for the position estimate.
run_connect ==
    /\ pc = "run"
    /\ Await(Action("connect"), "run_arm", "none")
    /\ UNCHANGED <<locals, session, ret, rejected, sumDeltas>>

run_arm ==
    /\ pc = "run_arm"
    /\ Await(Action("arm"), "run_takeoff", "none")
    /\ UNCHANGED <<locals, session, ret, rejected, sumDeltas>>

run_takeoff ==
    /\ pc = "run_takeoff"
    /\ Await(Action("takeoff"), "run_prime", "none")
    /\ UNCHANGED <<locals, session, ret, rejected, sumDeltas>>

run_prime ==
    /\ pc = "run_prime"
    /\ Await(SetPosition(Zero, Zero, Zero, Zero), "run_start", "none")
    /\ UNCHANGED <<locals, session, ret, rejected, sumDeltas>>

run_start ==
    /\ pc = "run_start"
    /\ \E ok \in BOOLEAN :
        /\ Await(OffboardStart(ok),
                 IF ok THEN "run_square" ELSE "run_disarm",
                 IF ok THEN "none" ELSE "starting_offboard_failed")
        /\ rejected' = (rejected \/ ~ok)
    /\ UNCHANGED <<locals, session, ret, sumDeltas>>

run_disarm ==
    /\ pc = "run_disarm"
    /\ Await(Action("disarm"), "done", "none")
    /\ UNCHANGED <<locals, session, ret, rejected, sumDeltas>>

run_square ==
    /\ pc = "run_square"
    /\ Await(Square[wp], IF wp = Len(Square) THEN "run_land" ELSE "run_square", "none")
    /\ wp' = wp + 1
    /\ UNCHANGED <<locals, prog, llm_processor, nChoices>>
    /\ UNCHANGED <<ret, rejected, sumDeltas>>

run_land ==
    /\ pc = "run_land"
    /\ Await(Action("land"), "done", "none")
    /\ UNCHANGED <<locals, session, ret, rejected, sumDeltas>>

(***************************************************************************)
(* The maneuver arithmetic of the loops.                                   *)
(***************************************************************************)
TURN_SPEED ==
    30

\* A heading kept within one revolution: the sum wrapped at 360 degrees.
TurnRightWrapped(yaw, angle) ==
    IF RLe(R(360), RAdd(yaw, angle)) THEN RSub(RAdd(yaw, angle), R(360))
    ELSE RAdd(yaw, angle)

\* yaw_heading += angle
TurnRight(yaw, angle) ==
    RAdd(yaw, angle)

\* yaw_heading -= angle
TurnLeft(yaw, angle) ==
    RSub(yaw, angle)

\* asyncio.sleep(angle / TURN_SPEED)
TurnDuration(angle) ==
    RDiv(angle, R(TURN_SPEED))

\* The six movement branches: VelocityNedYaw(north, east, down, yaw).
vel_map(action, speed, yaw) ==
    CASE action = "forward" -> SetVelocity(speed, Zero, Zero, yaw)
      [] action = "backward" -> SetVelocity(RNeg(speed), Zero, Zero, yaw)
      [] action = "right" -> SetVelocity(Zero, speed, Zero, yaw)
      [] action = "left" -> SetVelocity(Zero, RNeg(speed), Zero, yaw)
      [] action = "up" -> SetVelocity(Zero, Zero, RNeg(speed), yaw)
      [] action = "down" -> SetVelocity(Zero, Zero, speed, yaw)

Movements ==
    {"forward", "backward", "left", "right", "up", "down"}

Rotation(action, angle, h0) ==
    [kind |-> "rotation", action |-> action, angle |-> angle, distance |-> Zero,
     speed |-> Zero, duration |-> TurnDuration(angle), h0 |-> h0,
     held |-> FALSE, arrested |-> FALSE, after |-> "none"]

Movement(action, distance, speed, duration, h0) ==
    [kind |-> "movement", action |-> action, angle |-> Zero,
     distance |-> distance, speed |-> speed, duration |-> duration, h0 |-> h0,
     held |-> FALSE, arrested |-> FALSE, after |-> "none"]

Other(action, h0) ==
    [NoCmd EXCEPT !.kind = "other", !.action = action, !.h0 = h0]

(***************************************************************************)
(* voice_control.py: manual_control(drone)                                 *)
(***************************************************************************)
ManualLines ==
    {
     \* "exit"
     <<"e", "x", "i", "t">>,
     \* "land"
     <<"l", "a", "n", "d">>,
     \* "rth"
     <<"r", "t", "h">>,
     \* "debug"
     <<"d", "e", "b", "u", "g">>,
     \* "turn_r 45"
     <<"t", "u", "r", "n", "_", "r", " ", "4", "5">>,
     \* "turn_l 90"
     <<"t", "u", "r", "n", "_", "l", " ", "9", "0">>,
     \* "turn_r"
     <<"t", "u", "r", "n", "_", "r">>,
     \* "turn_l x"
     <<"t", "u", "r", "n", "_", "l", " ", "x">>,
     \* "turn_b"
     <<"t", "u", "r", "n", "_", "b">>,
     \* " F 3 "
     <<" ", "F", " ", "3", " ">>,
     \* "b 10"
     <<"b", " ", "1", "0">>,
     \* "u 0.05"
     <<"u", " ", "0", ".", "0", "5">>,
     \* "l 1.5"
     <<"l", " ", "1", ".", "5">>,
     \* "r 2"
     <<"r", " ", "2">>,
     \* "d 2"
     <<"d", " ", "2">>,
     \* "x 1"
     <<"x", " ", "1">>,
     \* "f"
     <<"f">>,
     \* "f far"
     <<"f", " ", "f", "a", "r">>
    }


MAX_SPEED ==
    R(2)

MIN_SPEED ==
    <<1, 5>>

TIME_GOAL ==
    <<3, 2>>

\* A distance bounded below only: max(0.1, float(distance)).
ManualDistanceUncapped(x) ==
    PyMax(<<1, 10>>, x)

\* distance = max(0.1, min(5.0, float(distance)))
ManualDistance(x) ==
    PyMax(<<1, 10>>, PyMin(R(5), x))

\* speed = min(MAX_SPEED, max(MIN_SPEED, distance / TIME_GOAL))
ManualSpeed(distance) ==
    PyMin(MAX_SPEED, PyMax(MIN_SPEED, RDiv(distance, TIME_GOAL)))

ManualDirections ==
    {<<"f">>, <<"b">>, <<"r">>, <<"l">>, <<"u">>, <<"d">>}

ManualAction(direction) ==
    CASE direction = <<"f">> -> "forward"
      [] direction = <<"b">> -> "backward"
      [] direction = <<"r">> -> "right"
      [] direction = <<"l">> -> "left"
      [] direction = <<"u">> -> "up"
      [] direction = <<"d">> -> "down"

\* input("> ").strip().lower()
ManualCmd(line) ==
    Lower(Strip(line))

\* The branch of the if/elif chain that a command line takes.
ManualBranch(c) ==
    IF c = W.exit THEN "exit"
    ELSE IF c = W.land THEN "land"
    ELSE IF c = W.rth THEN "rth"
    ELSE IF c = W.debug THEN "debug"
    ELSE IF StartsWith(c, W.turn_r) THEN "turn_r"
    ELSE IF StartsWith(c, W.turn_l) THEN "turn_l"
    ELSE IF c = W.turn_b THEN "turn_b"
    ELSE "move"

\* "_, deg = cmd.split(); deg = float(deg)" and
\* "direction, distance = cmd.split(); ... float(distance)": the second
\* token as a number, [ok |-> FALSE] when the unpacking or float() raises.
SecondNumber(c) ==
    IF Len(Split(c)) = 2 THEN ParseFloat(Split(c)[2]) ELSE [ok |-> FALSE, v |-> Zero]

manual_enter ==
    /\ pc = "manual_control"
    /\ yaw_heading' = Zero
    /\ Await(SetVelocity(Zero, Zero, Zero, Zero), "m_start", "none")
    /\ UNCHANGED <<command_result, cmd, alt, hold, input, nCmds>>
    /\ UNCHANGED <<session, ret, rejected, sumDeltas>>

manual_start ==
    /\ pc = "m_start"
    /\ \E ok \in BOOLEAN :
        /\ Await(OffboardStart(ok), IF ok THEN "m_read" ELSE "menu",
                 IF ok THEN "none" ELSE "could_not_start_offboard")
        /\ KeepUnlessMenu(IF ok THEN "m_read" ELSE "menu")
    /\ UNCHANGED <<session, ret, rejected, sumDeltas>>

\* exit, land, rth: offboard.stop(), then the terminal action, then break.
manual_terminal ==
    /\ pc = "m_read"
    /\ nCmds < MaxCmds
    /\ \E line \in ManualLines :
        LET c == ManualCmd(line)
            b == ManualBranch(c)
        IN  /\ b \in {"exit", "land", "rth"}
            /\ Await(OffboardStop,
                     CASE b = "exit" -> "menu"
                       [] b = "land" -> "land"
                       [] b = "rth" -> "return_to_launch",
                     "none")
            /\ IF b = "exit" THEN Forget
               ELSE /\ cmd' = Other(IF b = "rth" THEN "return_home" ELSE b, yaw_heading)
                    /\ input' = c
                    /\ nCmds' = nCmds + 1
                    /\ hold' = Zero
                    /\ UNCHANGED <<yaw_heading, command_result, alt>>
    /\ UNCHANGED <<session, ret, rejected, sumDeltas>>

manual_debug ==
    /\ pc = "m_read"
    /\ nCmds < MaxCmds
    /\ \E line \in ManualLines :
        LET c == ManualCmd(line)
        IN  /\ ManualBranch(c) = "debug"
            /\ Goto("m_loop", "debug_telemetry", "none")
            /\ cmd' = Other("debug", yaw_heading)
            /\ input' = c
    /\ nCmds' = nCmds + 1
    /\ hold' = Zero
    /\ UNCHANGED <<yaw_heading, command_result, alt>>
    /\ UNCHANGED <<session, ret, rejected, sumDeltas>>

\* turn_r <angle>, turn_l <angle>, turn_b
manual_turn ==
    /\ pc = "m_read"
    /\ nCmds < MaxCmds
    /\ \E line \in ManualLines :
        LET c == ManualCmd(line)
            b == ManualBranch(c)
            deg == IF b = "turn_b" THEN R(180) ELSE SecondNumber(c).v
            yaw == IF b = "turn_l" THEN TurnLeft(yaw_heading, deg)
                   ELSE TurnRight(yaw_heading, deg)
        IN  /\ b \in {"turn_r", "turn_l", "turn_b"}
            /\ b # "turn_b" => SecondNumber(c).ok
            /\ yaw_heading' = yaw
            /\ sumDeltas' = RAdd(sumDeltas, RSub(yaw, yaw_heading))
            /\ Await(SetVelocity(Zero, Zero, Zero, yaw), "m_sleep", "none")
            /\ cmd' = Rotation(CASE b = "turn_r" -> "turn_right"
                                 [] b = "turn_l" -> "turn_left"
                                 [] b = "turn_b" -> "turn_b",
                               deg, yaw_heading)
            /\ input' = c
    /\ nCmds' = nCmds + 1
    /\ hold' = Zero
    /\ UNCHANGED <<command_result, alt>>
    /\ UNCHANGED <<session, ret, rejected>>

\* except: print("[x] Format: turn_r <angle>")
manual_turn_format ==
    /\ pc = "m_read"
    /\ nCmds < MaxCmds
    /\ \E line \in ManualLines :
        LET c == ManualCmd(line)
        IN  /\ ManualBranch(c) \in {"turn_r", "turn_l"}
            /\ ~SecondNumber(c).ok
            /\ Goto("m_loop", "format_turn", "parse_error")
            /\ cmd' = Other("none", yaw_heading)
            /\ input' = c
    /\ nCmds' = nCmds + 1
    /\ hold' = Zero
    /\ UNCHANGED <<yaw_heading, command_result, alt>>
    /\ UNCHANGED <<session, ret, rejected, sumDeltas>>

manual_move ==
    /\ pc = "m_read"
    /\ nCmds < MaxCmds
    /\ \E line \in ManualLines :
        LET c == ManualCmd(line)
            direction == Split(c)[1]
            distance == ManualDistance(SecondNumber(c).v)
            speed == ManualSpeed(distance)
            duration == RDiv(distance, speed)
        IN  /\ ManualBranch(c) = "move"
            /\ SecondNumber(c).ok
            /\ direction \in ManualDirections
            /\ Await(vel_map(ManualAction(direction), speed, yaw_heading),
                     "m_sleep", "none")
            /\ cmd' = Movement(ManualAction(direction), distance, speed, duration,
                               yaw_heading)
            /\ input' = c
    /\ nCmds' = nCmds + 1
    /\ hold' = Zero
    /\ UNCHANGED <<yaw_heading, command_result, alt>>
    /\ UNCHANGED <<session, ret, rejected, sumDeltas>>

\* else: print("[x] Unknown direction."); continue
manual_unknown_direction ==
    /\ pc = "m_read"
    /\ nCmds < MaxCmds
    /\ \E line \in ManualLines :
        LET c == ManualCmd(line)
        IN  /\ ManualBranch(c) = "move"
            /\ SecondNumber(c).ok
            /\ Split(c)[1] \notin ManualDirections
            /\ Goto("m_loop", "unknown_direction", "unsupported_direction")
            /\ cmd' = Other("none", yaw_heading)
            /\ input' = c
    /\ nCmds' = nCmds + 1
    /\ hold' = Zero
    /\ UNCHANGED <<yaw_heading, command_result, alt>>
    /\ UNCHANGED <<session, ret, rejected, sumDeltas>>

\* except Exception as e: print(f"[x] Error: {e}")
manual_move_error ==
    /\ pc = "m_read"
    /\ nCmds < MaxCmds
    /\ \E line \in ManualLines :
        LET c == ManualCmd(line)
        IN  /\ ManualBranch(c) = "move"
            /\ ~SecondNumber(c).ok
            /\ Goto("m_loop", "error", "parse_error")
            /\ cmd' = Other("none", yaw_heading)
            /\ input' = c
    /\ nCmds' = nCmds + 1
    /\ hold' = Zero
    /\ UNCHANGED <<yaw_heading, command_result, alt>>
    /\ UNCHANGED <<session, ret, rejected, sumDeltas>>

\* asyncio.sleep(deg / TURN_SPEED), asyncio.sleep(180 / TURN_SPEED),
\* asyncio.sleep(duration): after a rotation the loop goes round.
manual_sleep ==
    /\ pc = "m_sleep"
    /\ hold' = cmd.duration
    /\ cmd' = [cmd EXCEPT !.held = TRUE]
    /\ Goto(IF cmd.kind = "rotation" THEN "m_loop" ELSE "m_zero", "none", "none")
    /\ UNCHANGED <<yaw_heading, command_result, alt, input, nCmds>>
    /\ UNCHANGED <<session, ret, rejected, sumDeltas>>

manual_zero ==
    /\ pc = "m_zero"
    /\ Await(SetVelocity(Zero, Zero, Zero, yaw_heading), "m_loop", "none")
    /\ cmd' = [cmd EXCEPT !.arrested = TRUE]
    /\ UNCHANGED <<yaw_heading, command_result, alt, hold, input, nCmds>>
    /\ UNCHANGED <<session, ret, rejected, sumDeltas>>

\* "while True:": the handled command's locals are dead, the next line is read.
manual_loop ==
    /\ pc = "m_loop"
    /\ Goto("m_read", "none", "none")
    /\ Again
    /\ UNCHANGED <<yaw_heading, alt, nCmds>>
    /\ UNCHANGED <<session, ret, rejected, sumDeltas>>

(***************************************************************************)
(* What the recogniser and the remote interpreter can answer (bounded).    *)
(***************************************************************************)
Utterances ==
    {
     U_move_forward_3_meters,
     \* "turn right 45 degrees"
     <<"t", "u", "r", "n", " ", "r", "i", "g", "h", "t", " ", "4", "5",
       " ", "d", "e", "g", "r", "e", "e", "s">>,
     \* "how's the weather today"
     <<"h", "o", "w", "'", "s", " ", "t", "h", "e", " ", "w", "e", "a",
       "t", "h", "e", "r", " ", "t", "o", "d", "a", "y">>,
     \* "Land the drone"
     <<"L", "a", "n", "d", " ", "t", "h", "e", " ", "d", "r", "o", "n",
       "e">>,
     \* "go back"
     <<"g", "o", " ", "b", "a", "c", "k">>,
     \* "go left"
     <<"g", "o", " ", "l", "e", "f", "t">>,
     \* "go right"
     <<"g", "o", " ", "r", "i", "g", "h", "t">>,
     \* "turn left"
     <<"t", "u", "r", "n", " ", "l", "e", "f", "t">>,
     \* "turn left 45"
     <<"t", "u", "r", "n", " ", "l", "e", "f", "t", " ", "4", "5">>,
     \* "turn right 90"
     <<"t", "u", "r", "n", " ", "r", "i", "g", "h", "t", " ", "9", "0">>,
     \* "turn around"
     <<"t", "u", "r", "n", " ", "a", "r", "o", "u", "n", "d">>,
     \* "go up"
     <<"g", "o", " ", "u", "p">>,
     \* "come down"
     <<"c", "o", "m", "e", " ", "d", "o", "w", "n">>,
     \* "take off"
     <<"t", "a", "k", "e", " ", "o", "f", "f">>,
     \* "return home"
     <<"r", "e", "t", "u", "r", "n", " ", "h", "o", "m", "e">>,
     \* "stop"
     <<"s", "t", "o", "p">>,
     \* "exit"
     <<"e", "x", "i", "t">>
    }

Docs ==
    {CommandDoc("forward", Num(R(3)), Absent),
     CommandDoc("up", Num(R(10)), Absent),
     CommandDoc("down", Num(<<3, 10>>), Absent),
     CommandDoc("left", Num(R(0)), Absent),
     CommandDoc("right", Num(R(-1)), Absent),
     CommandDoc("backward", Null, Absent),
     Doc("object", "true", "forward", "absent", Absent, Absent),
     Doc("object", "true", "backward", "null", Absent, Absent),
     CommandDoc("turn_right", Absent, Num(R(45))),
     CommandDoc("turn_right", Absent, Num(R(350))),
     CommandDoc("turn_left", Absent, Absent),
     CommandDoc("turn_left", Absent, Null),
     CommandDoc("takeoff", Absent, Absent),
     CommandDoc("takeoff", Null, Absent),
     CommandDoc("land", Absent, Absent),
     CommandDoc("return_home", Absent, Absent),
     CommandDoc("stop", Absent, Absent),
     CommandDoc("exit", Absent, Absent),
     CommandDoc("flip", Absent, Absent),
     CommandDoc("null", Absent, Absent),
     NotCommandDoc,
     Doc("object", "absent", "absent", "absent", Absent, Absent),
     NonObjectDoc("array")}

Raises ==
    [raises |-> TRUE, text |-> <<>>]

Text(toks) ==
    [raises |-> FALSE, text |-> toks]

Plain(d) ==
    Text(<<JsonTok(d)>>)

Fenced(d) ==
    Text(<<Tok("fence_json"), Tok("ws"), JsonTok(d), Tok("ws"), Tok("fence")>>)

FencedProse(d) ==
    Text(<<Tok("fence_json"), Tok("ws"), JsonTok(d), Tok("ws"), Tok("fence"),
           Tok("ws"), Tok("prose")>>)

BareFenced(d) ==
    Text(<<Tok("fence"), Tok("ws"), JsonTok(d), Tok("ws"), Tok("fence")>>)

Responses ==
    {Raises, Text(<<Tok("prose")>>)}
        \cup {Plain(d) : d \in Docs}
        \cup {Fenced(CommandDoc("forward", Num(R(3)), Absent)),
              FencedProse(CommandDoc("turn_right", Absent, Num(R(45)))),
              BareFenced(CommandDoc("land", Absent, Absent))}

\* What one pass of the enhanced loop can hear and be told: every utterance
\* with the responses that end in the fallback, and one utterance with every
\* response (the result of a response that parses does not depend on the
\* utterance).
Exchanges ==
    (Utterances \X {Raises, Text(<<Tok("prose")>>)})
        \cup ({U_move_forward_3_meters} \X Responses)

Heard ==
    {[speech |-> x[1], result |-> process_speech(x[1], x[2])] : x \in Exchanges}

(***************************************************************************)
(* voice_control.py: enhanced_voice_control(drone, llm_processor)          *)
(***************************************************************************)
\* command_result["is_drone_command"] raises TypeError or KeyError unless the
\* result is an object with that key.
Subscriptable(result) ==
    result.shape = "object" /\ result.is_drone_command # "absent"

IsCommand(result) ==
    Subscriptable(result) /\ result.is_drone_command = "true"

\* params = command_result.get("parameters", {}); params.get(field, default):
\* the default only when the key is missing; an explicit null stays None.
GetParam(result, field, default) ==
    IF result.parameters = "absent" \/ result[field].k = "absent"
    THEN Num(default) ELSE result[field]

\* params.get raises AttributeError when "parameters" is null.
ParamsOk(result) ==
    result.parameters # "null"

\* The adaptive speed without its upper limit: max(0.5, distance / 1.5).
AdaptiveSpeedUncapped(distance) ==
    PyMax(<<1, 2>>, RDiv(distance, <<3, 2>>))

\* speed = min(3.0, max(0.5, distance / 1.5))
AdaptiveSpeed(distance) ==
    PyMin(R(3), PyMax(<<1, 2>>, RDiv(distance, <<3, 2>>)))

Turns ==
    {"turn_right", "turn_left"}

Terminals ==
    {"exit", "land", "return_home"}

TerminalTarget(action) ==
    CASE action = "exit" -> "menu"
      [] action = "land" -> "land"
      [] action = "return_home" -> "return_to_launch"

\* Whether the handler of the action raises on its parameters before any
\* vehicle call.
ParamError(result) ==
    \/ result.action \in Turns
        /\ (~ParamsOk(result) \/ GetParam(result, "angle", R(90)).k # "num")
    \/ result.action \in Movements
        /\ (~ParamsOk(result) \/ GetParam(result, "distance", R(2)).k # "num")
    \/ result.action = "takeoff" /\ ~ParamsOk(result)

enhanced_enter ==
    /\ pc = "enhanced_voice_control"
    /\ yaw_heading' = Zero
    /\ Await(SetVelocity(Zero, Zero, Zero, Zero), "e_start", "none")
    /\ UNCHANGED <<command_result, cmd, alt, hold, input, nCmds>>
    /\ UNCHANGED <<session, ret, rejected, sumDeltas>>

enhanced_start ==
    /\ pc = "e_start"
    /\ \E ok \in BOOLEAN :
        /\ Await(OffboardStart(ok), IF ok THEN "e_listen" ELSE "menu",
                 IF ok THEN "none" ELSE "could_not_start_offboard")
        /\ KeepUnlessMenu(IF ok THEN "e_listen" ELSE "menu")
    /\ UNCHANGED <<session, ret, rejected, sumDeltas>>

\* recognizer.listen(source, timeout=10, ...) stands before the try: its
\* WaitTimeoutError leaves the function and is caught by the menu.
enhanced_listen_timeout ==
    /\ pc = "e_listen"
    /\ nCmds < MaxCmds
    /\ Goto("menu", "error", "listen_timeout")
    /\ Forget
    /\ UNCHANGED <<session, ret, rejected, sumDeltas>>

\* recognize_google raises: UnknownValueError, or another error.
enhanced_recognize_error ==
    /\ pc = "e_listen"
    /\ nCmds < MaxCmds
    /\ \E e \in {"UnknownValueError", "RequestError"} :
        Goto("e_loop",
             IF e = "UnknownValueError" THEN "could_not_understand" ELSE "error",
             IF e = "UnknownValueError" THEN "unintelligible" ELSE "recognizer_error")
    /\ nCmds' = nCmds + 1
    /\ UNCHANGED <<yaw_heading, command_result, cmd, alt, hold, input>>
    /\ UNCHANGED <<session, ret, rejected, sumDeltas>>

\* The common part of a pass that got a result h from process_speech.
Pass(h, c) ==
    /\ command_result' = h.result
    /\ input' = h.speech
    /\ cmd' = c
    /\ nCmds' = nCmds + 1

\* command_result["is_drone_command"] raises.
enhanced_bad_record ==
    /\ pc = "e_listen"
    /\ nCmds < MaxCmds
    /\ \E h \in Heard :
        /\ ~Subscriptable(h.result)
        /\ Goto("e_loop", "error", "field_error")
        /\ Pass(h, Other("none", yaw_heading))
    /\ UNCHANGED <<yaw_heading, alt, hold>>
    /\ UNCHANGED <<session, ret, rejected, sumDeltas>>

\* A loop that sends a hover setpoint when the record is not a command.
enhanced_not_command_hover ==
    /\ pc = "e_listen"
    /\ nCmds < MaxCmds
    /\ \E h \in Heard :
        /\ Subscriptable(h.result) /\ ~IsCommand(h.result)
        /\ Await(SetVelocity(Zero, Zero, Zero, yaw_heading), "e_loop",
                 "general_conversation")
        /\ Pass(h, Other("none", yaw_heading))
    /\ UNCHANGED <<yaw_heading, alt, hold>>
    /\ UNCHANGED <<session, ret, rejected, sumDeltas>>

enhanced_not_command ==
    /\ pc = "e_listen"
    /\ nCmds < MaxCmds
    /\ \E h \in Heard :
        /\ Subscriptable(h.result) /\ ~IsCommand(h.result)
        /\ Goto("e_loop", "general_conversation", "none")
        /\ Pass(h, Other("none", yaw_heading))
    /\ UNCHANGED <<yaw_heading, alt, hold>>
    /\ UNCHANGED <<session, ret, rejected, sumDeltas>>

\* exit, land, return_home: offboard.stop(), the terminal action, break.
\* A loop that stops offboard mode on return_home but goes on listening.
enhanced_terminal_return_home_listens ==
    /\ pc = "e_listen"
    /\ nCmds < MaxCmds
    /\ \E h \in Heard :
        /\ IsCommand(h.result) /\ h.result.action \in Terminals
        /\ Await(OffboardStop,
                 IF h.result.action = "return_home" THEN "e_loop"
                 ELSE TerminalTarget(h.result.action), "none")
        /\ IF h.result.action = "exit" THEN Forget
           ELSE /\ Pass(h, Other(h.result.action, yaw_heading))
                /\ UNCHANGED <<yaw_heading, alt, hold>>
    /\ UNCHANGED <<session, ret, rejected, sumDeltas>>

enhanced_terminal ==
    /\ pc = "e_listen"
    /\ nCmds < MaxCmds
    /\ \E h \in Heard :
        /\ IsCommand(h.result) /\ h.result.action \in Terminals
        /\ Await(OffboardStop, TerminalTarget(h.result.action), "none")
        /\ IF h.result.action = "exit" THEN Forget
           ELSE /\ Pass(h, Other(h.result.action, yaw_heading))
                /\ UNCHANGED <<yaw_heading, alt, hold>>
    /\ UNCHANGED <<session, ret, rejected, sumDeltas>>

\* takeoff: alt = params.get("distance", 2.0); offboard.stop(); takeoff(...)
enhanced_takeoff ==
    /\ pc = "e_listen"
    /\ nCmds < MaxCmds
    /\ \E h \in Heard :
        /\ IsCommand(h.result) /\ h.result.action = "takeoff"
        /\ ~ParamError(h.result)
        /\ alt' = GetParam(h.result, "distance", R(2))
        /\ Await(OffboardStop, "takeoff", "none")
        /\ Pass(h, Other("takeoff", yaw_heading))
    /\ ret' = "enhanced"
    /\ UNCHANGED <<yaw_heading, hold>>
    /\ UNCHANGED <<session, rejected, sumDeltas>>

\* line 268: offboard.start() once takeoff() has returned; its exception
\* is caught by the loop's handler.
enhanced_restart ==
    /\ pc = "e_restart"
    /\ \E ok \in BOOLEAN :
        AwaitAfter(OffboardStart(ok), "e_loop", IF ok THEN "none" ELSE "error",
                   IF ok THEN "none" ELSE "start_rejected")
    /\ UNCHANGED <<locals, session, ret, rejected, sumDeltas>>

\* A stop that hovers facing north instead of at the current heading.
enhanced_stop_facing_north ==
    /\ pc = "e_listen"
    /\ nCmds < MaxCmds
    /\ \E h \in Heard :
        /\ IsCommand(h.result) /\ h.result.action = "stop"
        /\ Await(SetVelocity(Zero, Zero, Zero, Zero), "e_loop", "none")
        /\ Pass(h, [Other("stop", yaw_heading) EXCEPT !.after = cmd.after])
    /\ UNCHANGED <<yaw_heading, alt, hold>>
    /\ UNCHANGED <<session, ret, rejected, sumDeltas>>

enhanced_stop ==
    /\ pc = "e_listen"
    /\ nCmds < MaxCmds
    /\ \E h \in Heard :
        /\ IsCommand(h.result) /\ h.result.action = "stop"
        /\ Await(SetVelocity(Zero, Zero, Zero, yaw_heading), "e_loop", "none")
        /\ Pass(h, [Other("stop", yaw_heading) EXCEPT !.after = cmd.after])
    /\ UNCHANGED <<yaw_heading, alt, hold>>
    /\ UNCHANGED <<session, ret, rejected, sumDeltas>>

enhanced_turn ==
    /\ pc = "e_listen"
    /\ nCmds < MaxCmds
    /\ \E h \in Heard :
        LET action == h.result.action
            angle == GetParam(h.result, "angle", R(90)).v
            yaw == IF action = "turn_right" THEN TurnRight(yaw_heading, angle)
                   ELSE TurnLeft(yaw_heading, angle)
        IN  /\ IsCommand(h.result) /\ action \in Turns
            /\ ~ParamError(h.result)
            /\ yaw_heading' = yaw
            /\ sumDeltas' = RAdd(sumDeltas, RSub(yaw, yaw_heading))
            /\ Await(SetVelocity(Zero, Zero, Zero, yaw), "e_sleep", "none")
            /\ Pass(h, Rotation(action, angle, yaw_heading))
    /\ UNCHANGED <<alt, hold>>
    /\ UNCHANGED <<session, ret, rejected>>

enhanced_move ==
    /\ pc = "e_listen"
    /\ nCmds < MaxCmds
    /\ \E h \in Heard :
        LET action == h.result.action
            distance == GetParam(h.result, "distance", R(2)).v
            speed == AdaptiveSpeed(distance)
            duration == RDiv(distance, speed)
        IN  /\ IsCommand(h.result) /\ action \in Movements
            /\ ~ParamError(h.result)
            /\ Await(vel_map(action, speed, yaw_heading), "e_sleep", "none")
            /\ Pass(h, Movement(action, distance, speed, duration, yaw_heading))
    /\ UNCHANGED <<yaw_heading, alt, hold>>
    /\ UNCHANGED <<session, ret, rejected, sumDeltas>>

\* params.get on None, += None, None / 1.5: caught by "except Exception".
enhanced_param_error ==
    /\ pc = "e_listen"
    /\ nCmds < MaxCmds
    /\ \E h \in Heard :
        /\ IsCommand(h.result) /\ ParamError(h.result)
        /\ Goto("e_loop", "error", "type_error")
        /\ Pass(h, Other("none", yaw_heading))
    /\ UNCHANGED <<yaw_heading, alt, hold>>
    /\ UNCHANGED <<session, ret, rejected, sumDeltas>>

\* else: print(f"[?] Unknown action: {action}")
enhanced_unknown ==
    /\ pc = "e_listen"
    /\ nCmds < MaxCmds
    /\ \E h \in Heard :
        /\ IsCommand(h.result)
        /\ h.result.action \notin
             Terminals \cup {"takeoff", "stop"} \cup Turns \cup Movements
        /\ Goto("e_loop", "unknown_action", "unknown_action")
        /\ Pass(h, Other("none", yaw_heading))
    /\ UNCHANGED <<yaw_heading, alt, hold>>
    /\ UNCHANGED <<session, ret, rejected, sumDeltas>>

\* asyncio.sleep(angle / TURN_SPEED): the loop goes round;
\* asyncio.sleep(duration): the zero setpoint follows.
enhanced_sleep ==
    /\ pc = "e_sleep"
    /\ hold' = cmd.duration
    /\ cmd' = [cmd EXCEPT !.held = TRUE]
    /\ Goto(IF cmd.kind = "rotation" THEN "e_loop" ELSE "e_zero", "none", "none")
    /\ UNCHANGED <<yaw_heading, command_result, alt, input, nCmds>>
    /\ UNCHANGED <<session, ret, rejected, sumDeltas>>

enhanced_zero ==
    /\ pc = "e_zero"
    /\ Await(SetVelocity(Zero, Zero, Zero, yaw_heading), "e_loop", "none")
    /\ cmd' = [cmd EXCEPT !.arrested = TRUE]
    /\ UNCHANGED <<yaw_heading, command_result, alt, hold, input, nCmds>>
    /\ UNCHANGED <<session, ret, rejected, sumDeltas>>

\* "while True:"
enhanced_loop ==
    /\ pc = "e_loop"
    /\ Goto("e_listen", "none", "none")
    /\ Again
    /\ UNCHANGED <<yaw_heading, alt, nCmds>>
    /\ UNCHANGED <<session, ret, rejected, sumDeltas>>

(***************************************************************************)
(* voice_control.py: voice_control_basic(drone)                            *)
(***************************************************************************)
FIXED_DIST ==
    R(5)

SPEED ==
    R(2)

\* The branch of the if/elif chain that a lower-cased utterance takes.
BasicBranch(speech) ==
    IF Contains(speech, W.exit) THEN "exit"
    ELSE IF Contains(speech, W.land) THEN "land"
    ELSE IF Contains(speech, W.return) \/ Contains(speech, W.home) THEN "return_home"
    ELSE IF Contains(speech, W.turn_right) THEN "turn_right"
    ELSE IF Contains(speech, W.turn_left) THEN "turn_left"
    ELSE IF Contains(speech, W.forward) THEN "forward"
    ELSE IF Contains(speech, W.back) THEN "backward"
    ELSE IF Contains(speech, W.right) /\ ~Contains(speech, W.turn) THEN "right"
    ELSE IF Contains(speech, W.left) /\ ~Contains(speech, W.turn) THEN "left"
    ELSE IF Contains(speech, W.up) THEN "up"
    ELSE IF Contains(speech, W.down) THEN "down"
    ELSE "unrecognized"

\* int(speech.split("right")[-1].strip()), int(speech.split("left")[-1].strip())
BasicDegrees(speech, branch) ==
    ParseInt(Strip(AfterLast(speech, IF branch = "turn_right" THEN W.right ELSE W.left)))

Spoken(c, speech) ==
    /\ cmd' = c
    /\ input' = speech
    /\ nCmds' = nCmds + 1

basic_enter ==
    /\ pc = "voice_control_basic"
    /\ yaw_heading' = Zero
    /\ Await(SetVelocity(Zero, Zero, Zero, Zero), "b_start", "none")
    /\ UNCHANGED <<command_result, cmd, alt, hold, input, nCmds>>
    /\ UNCHANGED <<session, ret, rejected, sumDeltas>>

basic_start ==
    /\ pc = "b_start"
    /\ \E ok \in BOOLEAN :
        /\ Await(OffboardStart(ok), IF ok THEN "b_listen" ELSE "menu",
                 IF ok THEN "none" ELSE "could_not_start_offboard")
        /\ KeepUnlessMenu(IF ok THEN "b_listen" ELSE "menu")
    /\ UNCHANGED <<session, ret, rejected, sumDeltas>>

\* recognize_google raises: the handlers print and the loop goes round,
\* without the closing setpoint of line 573.
basic_recognize_error ==
    /\ pc = "b_listen"
    /\ nCmds < MaxCmds
    /\ \E e \in {"UnknownValueError", "RequestError"} :
        Goto("b_loop",
             IF e = "UnknownValueError" THEN "could_not_understand" ELSE "error",
             IF e = "UnknownValueError" THEN "unintelligible" ELSE "recognizer_error")
    /\ nCmds' = nCmds + 1
    /\ UNCHANGED <<yaw_heading, command_result, cmd, alt, hold, input>>
    /\ UNCHANGED <<session, ret, rejected, sumDeltas>>

basic_terminal ==
    /\ pc = "b_listen"
    /\ nCmds < MaxCmds
    /\ \E u \in Utterances :
        LET speech == Lower(u)
            b == BasicBranch(speech)
        IN  /\ b \in Terminals
            /\ Await(OffboardStop, TerminalTarget(b), "none")
            /\ IF b = "exit" THEN Forget
               ELSE /\ Spoken(Other(b, yaw_heading), speech)
                    /\ UNCHANGED <<yaw_heading, command_result, alt, hold>>
    /\ UNCHANGED <<session, ret, rejected, sumDeltas>>

basic_turn ==
    /\ pc = "b_listen"
    /\ nCmds < MaxCmds
    /\ \E u \in Utterances :
        LET speech == Lower(u)
            b == BasicBranch(speech)
            deg == BasicDegrees(speech, b)
            yaw == IF b = "turn_right" THEN TurnRight(yaw_heading, deg.v)
                   ELSE TurnLeft(yaw_heading, deg.v)
        IN  /\ b \in Turns
            /\ deg.ok
            /\ yaw_heading' = yaw
            /\ sumDeltas' = RAdd(sumDeltas, RSub(yaw, yaw_heading))
            /\ Await(SetVelocity(Zero, Zero, Zero, yaw), "b_sleep", "none")
            /\ Spoken(Rotation(b, deg.v, yaw_heading), speech)
    /\ UNCHANGED <<command_result, alt, hold>>
    /\ UNCHANGED <<session, ret, rejected>>

\* except: print("[x] Say: turn right <degrees>"), then line 573.
basic_turn_format ==
    /\ pc = "b_listen"
    /\ nCmds < MaxCmds
    /\ \E u \in Utterances :
        LET speech == Lower(u)
            b == BasicBranch(speech)
        IN  /\ b \in Turns
            /\ ~BasicDegrees(speech, b).ok
            /\ AwaitAfter(SetVelocity(Zero, Zero, Zero, yaw_heading), "b_loop",
                          "say_turn", "parse_error")
            /\ Spoken(Other("none", yaw_heading), speech)
    /\ UNCHANGED <<yaw_heading, command_result, alt, hold>>
    /\ UNCHANGED <<session, ret, rejected, sumDeltas>>

basic_move ==
    /\ pc = "b_listen"
    /\ nCmds < MaxCmds
    /\ \E u \in Utterances :
        LET speech == Lower(u)
            b == BasicBranch(speech)
        IN  /\ b \in Movements
            /\ Await(vel_map(b, SPEED, yaw_heading), "b_sleep", "none")
            /\ Spoken(Movement(b, FIXED_DIST, SPEED, RDiv(FIXED_DIST, SPEED),
                               yaw_heading), speech)
    /\ UNCHANGED <<yaw_heading, command_result, alt, hold>>
    /\ UNCHANGED <<session, ret, rejected, sumDeltas>>

\* else: print("[x] Unrecognized command."), then line 573.
basic_unrecognized ==
    /\ pc = "b_listen"
    /\ nCmds < MaxCmds
    /\ \E u \in Utterances :
        LET speech == Lower(u)
        IN  /\ BasicBranch(speech) = "unrecognized"
            /\ AwaitAfter(SetVelocity(Zero, Zero, Zero, yaw_heading), "b_loop",
                          "unrecognized", "unknown_action")
            /\ Spoken(Other("none", yaw_heading), speech)
    /\ UNCHANGED <<yaw_heading, command_result, alt, hold>>
    /\ UNCHANGED <<session, ret, rejected, sumDeltas>>

\* asyncio.sleep(deg / 30), asyncio.sleep(FIXED_DIST / SPEED)
basic_sleep ==
    /\ pc = "b_sleep"
    /\ hold' = cmd.duration
    /\ cmd' = [cmd EXCEPT !.held = TRUE]
    /\ Goto("b_zero", "none", "none")
    /\ UNCHANGED <<yaw_heading, command_result, alt, input, nCmds>>
    /\ UNCHANGED <<session, ret, rejected, sumDeltas>>

\* line 573, "Always stop after each move"
basic_zero ==
    /\ pc = "b_zero"
    /\ Await(SetVelocity(Zero, Zero, Zero, yaw_heading), "b_loop", "none")
    /\ cmd' = [cmd EXCEPT !.arrested = TRUE]
    /\ UNCHANGED <<yaw_heading, command_result, alt, hold, input, nCmds>>
    /\ UNCHANGED <<session, ret, rejected, sumDeltas>>

\* "while True:"
basic_loop ==
    /\ pc = "b_loop"
    /\ Goto("b_listen", "none", "none")
    /\ Again
    /\ UNCHANGED <<yaw_heading, alt, nCmds>>
    /\ UNCHANGED <<session, ret, rejected, sumDeltas>>

Next ==
    \/ connect \/ menu \/ menu_exit \/ arm \/ land \/ return_to_launch
    \/ takeoff_prime \/ takeoff_start \/ takeoff_ascend \/ takeoff_sleep
    \/ takeoff_zero
    \/ manual_enter \/ manual_start \/ manual_terminal \/ manual_debug
    \/ manual_turn \/ manual_turn_format \/ manual_move
    \/ manual_unknown_direction \/ manual_move_error \/ manual_sleep
    \/ manual_zero \/ manual_loop
    \/ enhanced_enter \/ enhanced_start \/ enhanced_listen_timeout
    \/ enhanced_recognize_error \/ enhanced_bad_record
    \/ enhanced_not_command \/ enhanced_terminal \/ enhanced_takeoff
    \/ enhanced_restart \/ enhanced_stop \/ enhanced_turn \/ enhanced_move
    \/ enhanced_param_error \/ enhanced_unknown \/ enhanced_sleep
    \/ enhanced_zero \/ enhanced_loop
    \/ basic_enter \/ basic_start \/ basic_recognize_error \/ basic_terminal
    \/ basic_turn \/ basic_turn_format \/ basic_move \/ basic_unrecognized
    \/ basic_sleep \/ basic_zero \/ basic_loop
    \/ run_connect \/ run_arm \/ run_takeoff \/ run_prime \/ run_start
    \/ run_disarm \/ run_square \/ run_land

Spec ==
    Init /\ [][Next]_vars

\* The programs with a vehicle whose land() and return_to_launch() calls
\* return: asyncio resumes the awaiting coroutine, which sleeps 5 s and
\* returns to its caller.
SpecVehicleReturns ==
    Spec /\ WF_vars(land) /\ WF_vars(return_to_launch)

(***************************************************************************)
(* DroneCommandProcessor on its own: process_speech and                    *)
(* _fallback_processing called with bounded inputs, outside any session.   *)
(***************************************************************************)
\* The utterance and response pairs handed to process_speech: those of the
\* enhanced loop, and every document in a fence, with and without prose
\* after the closing fence.
Interpreted ==
    Exchanges
        \cup ({U_move_forward_3_meters}
                \X ({Fenced(d) : d \in Docs} \cup {FencedProse(d) : d \in Docs}
                        \cup {BareFenced(d) : d \in Docs}))

InitInterpreter ==
    /\ prog \in {"process_speech", "_fallback_processing"}
    /\ llm_processor = TRUE
    /\ pc = "call"
    /\ ret = "menu"
    /\ yaw_heading = Zero
    /\ command_result = NotCommandDoc
    /\ cmd = NoCmd
    /\ alt = Num(R(2))
    /\ hold = Zero
    /\ input = NoText
    /\ vehicle = VehicleInit
    /\ printed = "none"
    /\ failure = "none"
    /\ rejected = FALSE
    /\ sumDeltas = Zero
    /\ wp = 1
    /\ nChoices = 0
    /\ nCmds = 0
    /\ reply = [raises |-> FALSE, text |-> <<>>]
    /\ calls = <<>>

\* command_result = await llm_processor.process_speech(speech)
call_process_speech ==
    /\ prog = "process_speech"
    /\ pc = "call"
    /\ \E x \in Interpreted :
        /\ input' = x[1]
        /\ reply' = x[2]
        /\ command_result' = process_speech(x[1], x[2])
    /\ UNCHANGED <<prog, llm_processor, pc, ret, yaw_heading, cmd, alt, hold,
                   vehicle, printed, failure, rejected, sumDeltas, wp,
                   nChoices, nCmds, calls>>

\* self._fallback_processing(speech_text), called again and again
call_fallback_processing ==
    /\ prog = "_fallback_processing"
    /\ pc = "call"
    /\ Len(calls) < MaxCalls
    /\ \E speech_text \in Utterances :
        /\ input' = speech_text
        /\ command_result' = _fallback_processing(speech_text)
        /\ calls' = Append(calls, [speech |-> speech_text,
                                   result |-> _fallback_processing(speech_text)])
    /\ UNCHANGED <<prog, llm_processor, pc, ret, yaw_heading, cmd, alt, hold,
                   vehicle, printed, failure, rejected, sumDeltas, wp,
                   nChoices, nCmds, reply>>

NextInterpreter ==
    \/ call_process_speech \/ call_fallback_processing

SpecInterpreter ==
    InitInterpreter /\ [][NextInterpreter]_vars

\* ---------------------------------------------------------------------------
\* Properties of the flows.
\* ---------------------------------------------------------------------------

\* The program counters at which a priming setpoint has just been sent and
\* the offboard start request is the next call.
StartPcs ==
    {"takeoff_start", "m_start", "e_start", "b_start", "run_start"}

\* The heads of the three interactive loops: the next command is read next.
LoopPcs ==
    {"m_loop", "e_loop", "b_loop"}

InManual ==
    pc \in {"m_sleep", "m_zero", "m_loop"}

InEnhanced ==
    pc \in {"e_sleep", "e_zero", "e_loop"}

InBasic ==
    pc \in {"b_sleep", "b_zero", "b_loop"}

\* The textbook clamp of x to [lo, hi].
Clamp(x, lo, hi) ==
    IF RLt(x, lo) THEN lo ELSE IF RLt(hi, x) THEN hi ELSE x

\* C1: every velocity or position setpoint is issued while offboard mode is
\* active, in every flow, the voice takeoff action and the continuation after
\* a rejected offboard start included.  The setpoint that primes an offboard
\* start request (the request is the very next call) is not counted.
C1_SetpointsOnlyWhileOffboardActive ==
    (vehicle.last.kind \in SetpointKinds /\ pc \notin StartPcs)
        => vehicle.offboard

\* C2: offboard mode is stopped before the terminal action is issued: a land
\* or return-to-launch command is never issued while setpoints were sent or
\* an offboard start was requested since the last offboard stop, and the
\* session ends on an exit only after an offboard stop.
C2_StopBeforeTerminalAction ==
    /\ vehicle.last.kind \in {"land", "return_to_launch"}
        => ~vehicle.primed /\ ~vehicle.startSinceStop
    /\ (prog = "voice_control" /\ pc = "done")
        => vehicle.last.kind = "offboard.stop"

\* C3: after the hold of every movement and every rotation, in all three
\* interactive loops, a zero-velocity setpoint at the current heading is
\* re-issued before the next command is read.
C3_ZeroSetpointAfterEveryHold ==
    (pc \in LoopPcs /\ cmd.held)
        => /\ cmd.arrested
           /\ vehicle.last = SetVelocity(Zero, Zero, Zero, yaw_heading)

\* C4: a per-command failure (a parse error, an unsupported direction, a
\* transcription timeout while listening, unintelligible audio) is reported
\* and the loop goes on to the next command; it does not return to the menu.
C4_FailureKeepsTheLoop ==
    failure \in {"parse_error", "unsupported_direction", "listen_timeout",
                 "unintelligible"}
        => pc \in LoopPcs /\ printed # "none"

WellFormed(r) ==
    /\ r.shape = "object"
    /\ r.is_drone_command \in {"true", "false"}
    /\ r.is_drone_command = "true"
        => r.action \notin {"absent", "null"} /\ r.parameters = "object"

\* C5: process_speech never raises and always returns a well-formed record:
\* an object with the command flag and, when the flag is true, an action and
\* a parameters object, so that no field access of the caller fails.
C5_WellFormedRecord ==
    /\ WellFormed(command_result)
    /\ failure # "field_error"

\* C6: when the offboard start of an arm-and-takeoff flow is rejected, the
\* next vehicle call is a disarm, the failure is reported, and no setpoint
\* follows and no command is read in that flow, on the scripted path and on
\* the takeoff paths of the voice-control program.
C6_RejectedStartDisarmsAndEnds ==
    rejected
        => /\ \/ vehicle.last.kind = "disarm"
              \/ vehicle.last.kind = "offboard.start" /\ pc = "run_disarm"
           /\ vehicle.last.kind \notin SetpointKinds
           /\ cmd.kind \notin {"rotation", "movement"}

\* C7: no takeoff command, offboard start or setpoint is issued before an arm
\* command, and no arm command before the connection is established, in
\* whatever order the menu choices are made.
C7_ConnectArmThenFly ==
    /\ vehicle.last.kind \in {"takeoff", "offboard.start"} \cup SetpointKinds
        => vehicle.armed
    /\ vehicle.last.kind = "arm" => vehicle.connected

\* C8: the heading is session-wide: the yaw of every setpoint sent is the
\* initial heading (0) plus the sum of all rotation deltas applied so far in
\* the session; entering a loop again does not reset it.
C8_HeadingIsSessionWide ==
    vehicle.last.kind \in SetpointKinds => vehicle.last.arg.yaw = sumDeltas

\* The angle and the distance an enhanced-loop record resolves to, by the
\* defaults of the dispatch (90 degrees, 2 metres).
RecordAngle ==
    IF command_result.parameters = "absent" \/ command_result.angle.k = "absent"
    THEN R(90) ELSE command_result.angle.v

RecordDistance ==
    IF command_result.parameters = "absent"
       \/ command_result.distance.k = "absent"
    THEN R(2) ELSE command_result.distance.v

\* C9: a rotation by a degrees at heading h makes the heading h + a (turn
\* right), h - a (turn left) or h + 180 (turn_b), never wrapped or clamped;
\* the setpoint sent has zero velocity at the new heading; the hold is a / 30
\* seconds.  A right turn of 45 at heading 0 gives heading 45 and a hold of
\* 1.5 seconds.
C9_RotationArithmetic ==
    cmd.kind = "rotation"
        => /\ yaw_heading = (IF cmd.action = "turn_left"
                             THEN RSub(cmd.h0, cmd.angle)
                             ELSE RAdd(cmd.h0, cmd.angle))
           /\ cmd.action = "turn_b" => cmd.angle = R(180)
           /\ InEnhanced => cmd.angle = RecordAngle
           /\ (InManual /\ cmd.action # "turn_b")
                => cmd.angle = SecondNumber(input).v
           /\ InBasic => cmd.angle = BasicDegrees(input, cmd.action).v
           /\ vehicle.last = SetVelocity(Zero, Zero, Zero, yaw_heading)
           /\ RMul(cmd.duration, R(30)) = cmd.angle
           /\ cmd.held => hold = cmd.duration
           /\ (cmd.action = "turn_right" /\ cmd.angle = R(45) /\ cmd.h0 = Zero)
                => yaw_heading = R(45) /\ cmd.duration = <<3, 2>>

\* A rotation has been held whose heading went beyond one revolution.
C9_HeadingBeyondRevolution ==
    /\ cmd.kind = "rotation"
    /\ cmd.action = "turn_right"
    /\ cmd.held
    /\ RLt(R(360), yaw_heading)

\* The magnitude of a velocity setpoint along its single non-zero axis.
SetpointSpeed(arg) ==
    RAdd(RAbs(arg.north), RAdd(RAbs(arg.east), RAbs(arg.down)))

\* C10: a movement over distance d is flown at a speed within the loop's
\* band: clamp(d / 1.5, 0.5, 3.0) in the enhanced loop, clamp(d / 1.5, 0.2,
\* 2.0) in the manual loop (d being the distance the loop flies), the fixed
\* 2.0 over the fixed 5 metres in the basic loop; the hold is d divided by
\* that speed.  Forward 3 metres in the enhanced loop is flown at 2.0 for 1.5
\* seconds.
C10_MovementSpeedAndHold ==
    cmd.kind = "movement"
        => /\ InEnhanced
                => /\ cmd.distance = RecordDistance
                   /\ cmd.speed = Clamp(RDiv(cmd.distance, <<3, 2>>),
                                        <<1, 2>>, R(3))
                   /\ RLe(<<1, 2>>, cmd.speed) /\ RLe(cmd.speed, R(3))
                   /\ cmd.distance = R(3)
                        => cmd.speed = R(2) /\ cmd.duration = <<3, 2>>
           /\ InManual
                => /\ cmd.distance = Clamp(SecondNumber(input).v,
                                           <<1, 10>>, R(5))
                   /\ cmd.speed = Clamp(RDiv(cmd.distance, <<3, 2>>),
                                        <<1, 5>>, R(2))
                   /\ RLe(<<1, 5>>, cmd.speed) /\ RLe(cmd.speed, R(2))
           /\ InBasic => cmd.speed = R(2) /\ cmd.distance = R(5)
           /\ RMul(cmd.duration, cmd.speed) = cmd.distance
           /\ cmd.held => hold = cmd.duration
           /\ ~cmd.held => SetpointSpeed(vehicle.last.arg) = cmd.speed

\* Forward 3 metres has been flown in the enhanced loop at 2.0 m/s for 1.5 s.
C10_ForwardThreeMetres ==
    /\ pc = "e_zero"
    /\ cmd.kind = "movement"
    /\ cmd.action = "forward"
    /\ cmd.distance = R(3)
    /\ cmd.speed = R(2)
    /\ hold = <<3, 2>>

\* The number of quarter turns to the right a heading amounts to (0..3), or
\* -1 when the heading is not a whole number of quarter turns.
QuarterTurns(yaw) ==
    IF yaw[2] = 1 /\ yaw[1] % 90 = 0 THEN (yaw[1] \div 90) % 4 ELSE -1

\* The unit vectors <<north, east>> of the body-forward and the body-right
\* axis of a vehicle that faces q quarter turns to the right of north.
BodyForward(q) ==
    CASE q = 0 -> <<1, 0>> [] q = 1 -> <<0, 1>>
      [] q = 2 -> <<-1, 0>> [] q = 3 -> <<0, -1>>

BodyRight(q) ==
    CASE q = 0 -> <<0, 1>> [] q = 1 -> <<-1, 0>>
      [] q = 2 -> <<0, -1>> [] q = 3 -> <<1, 0>>

\* The velocity of a movement along the body axes of a vehicle at heading yaw.
BodyVelocity(action, speed, yaw) ==
    LET q == QuarterTurns(yaw)
        along == CASE action \in {"forward", "backward"} -> BodyForward(q)
                   [] action \in {"right", "left"} -> BodyRight(q)
                   [] OTHER -> <<0, 0>>
        sign == IF action \in {"forward", "right", "down"} THEN 1 ELSE -1
    IN  NedYaw(RMul(speed, R(sign * along[1])),
               RMul(speed, R(sign * along[2])),
               IF action \in {"up", "down"} THEN RMul(speed, R(sign)) ELSE Zero,
               yaw)

\* C11: the velocity sent for a movement points along the body axes of the
\* vehicle at its accumulated heading: forward and backward along the
\* body-forward axis, left and right along the body-lateral axis, up and down
\* along the vertical axis (up negative).  Stated for the headings that are
\* whole quarter turns, where the axes have exact components.
C11_VelocityAlongBodyAxes ==
    (cmd.kind = "movement" /\ ~cmd.held /\ QuarterTurns(yaw_heading) >= 0)
        => vehicle.last.arg = BodyVelocity(cmd.action, cmd.speed, yaw_heading)

\* The value a record resolves field to: the number given, or the default
\* when the record gives none or gives null.
Resolved(result, field, default) ==
    IF result.parameters = "object" /\ result[field].k = "num"
    THEN result[field].v ELSE default

\* C12: every command record that reaches the setpoint mapping carries
\* resolved parameters: a movement record yields a numeric distance and a
\* rotation record a numeric angle, the defaults 2.0 and 90 being applied when
\* the interpreter gives none or gives null; a record that is not a command
\* has no action other than unknown.
C12_ParametersResolved ==
    /\ (InEnhanced /\ IsCommand(command_result)
            /\ command_result.action \in Movements)
        => /\ cmd.kind = "movement"
           /\ cmd.distance = Resolved(command_result, "distance", R(2))
    /\ (InEnhanced /\ IsCommand(command_result)
            /\ command_result.action \in Turns)
        => /\ cmd.kind = "rotation"
           /\ cmd.angle = Resolved(command_result, "angle", R(90))
    /\ (Subscriptable(command_result) /\ ~IsCommand(command_result))
        => command_result.action \in {"absent", "unknown"}

NotWhiteSpace(tok) ==
    tok.t # "ws"

\* The kinds of the tokens of a response text, white space left out.
Layout(r) ==
    LET c == SelectSeq(r.text, NotWhiteSpace)
    IN  [i \in 1..Len(c) |-> c[i].t]

\* One JSON object in a json fence, with or without prose after the fence.
FencedObject(r) ==
    /\ ~r.raises
    /\ Layout(r) \in {<<"fence_json", "json", "fence">>,
                      <<"fence_json", "json", "fence", "prose">>}
    /\ SelectSeq(r.text, NotWhiteSpace)[2].doc.shape = "object"

\* The text left when the fence is taken off is one JSON document.
JsonAfterStripping(r) ==
    /\ ~r.raises
    /\ Layout(r) \in {<<"json">>, <<"fence_json", "json">>, <<"json", "fence">>,
                      <<"fence_json", "json", "fence">>}

\* C13: for a response that is one JSON object in a json fence, with or
\* without prose after the closing fence, process_speech returns the decoded
\* object; for a response that is not valid JSON once the fence is stripped
\* it returns the record of _fallback_processing for the same text.
C13_FenceStrippedBeforeDecoding ==
    (prog = "process_speech" /\ input # NoText)
        => /\ FencedObject(reply)
                => command_result = SelectSeq(reply.text, NotWhiteSpace)[2].doc
           /\ (~reply.raises /\ ~JsonAfterStripping(reply))
                => command_result = _fallback_processing(input)

\* The rules of the fallback matcher in their order: the words one of which
\* the utterance must contain, the words it must not contain, the record.
FallbackRules ==
    <<[words |-> {W.forward, W.ahead, W.front}, unless |-> {},
       record |-> CommandDoc("forward", Num(R(2)), Absent)],
      [words |-> {W.back, W.backward, W.reverse}, unless |-> {},
       record |-> CommandDoc("backward", Num(R(2)), Absent)],
      [words |-> {W.left}, unless |-> {W.turn},
       record |-> CommandDoc("left", Num(R(2)), Absent)],
      [words |-> {W.right}, unless |-> {W.turn},
       record |-> CommandDoc("right", Num(R(2)), Absent)],
      [words |-> {W.up, W.rise, W.ascend}, unless |-> {},
       record |-> CommandDoc("up", Num(R(2)), Absent)],
      [words |-> {W.down, W.descend, W.lower}, unless |-> {},
       record |-> CommandDoc("down", Num(R(2)), Absent)],
      [words |-> {W.turn_right}, unless |-> {},
       record |-> CommandDoc("turn_right", Absent, Num(R(90)))],
      [words |-> {W.turn_left}, unless |-> {},
       record |-> CommandDoc("turn_left", Absent, Num(R(90)))],
      [words |-> {W.land, W.landing}, unless |-> {},
       record |-> CommandDoc("land", Absent, Absent)],
      [words |-> {W.takeoff, W.take_off, W.launch}, unless |-> {},
       record |-> CommandDoc("takeoff", Absent, Absent)],
      [words |-> {W.home, W.return, W.rth}, unless |-> {},
       record |-> CommandDoc("return_home", Absent, Absent)],
      [words |-> {W.stop, W.halt, W.hover}, unless |-> {},
       record |-> CommandDoc("stop", Absent, Absent)],
      [words |-> {W.exit, W.quit, W.end}, unless |-> {},
       record |-> CommandDoc("exit", Absent, Absent)]>>

\* The record of the first rule the utterance matches, if any.
FirstMatch(text) ==
    LET t == Lower(text)
        hits == {i \in DOMAIN FallbackRules :
                    /\ \E w \in FallbackRules[i].words : Contains(t, w)
                    /\ \A w \in FallbackRules[i].unless : ~Contains(t, w)}
    IN  IF hits = {} THEN NotCommandDoc
        ELSE FallbackRules[CHOOSE i \in hits : \A j \in hits : i <= j].record

HeardNotACommand ==
    /\ pc = "e_listen"
    /\ input' # NoText
    /\ Subscriptable(command_result')
    /\ command_result'.is_drone_command = "false"

\* C15: when the interpreter's record for an utterance has the command flag
\* false, the voice loop maps no setpoint and makes no call to the vehicle
\* for it, leaves yaw_heading unchanged, and goes on to listen again.
C15_NotACommandIsIgnored ==
    [][/\ HeardNotACommand
            => /\ vehicle' = vehicle
               /\ yaw_heading' = yaw_heading
               /\ sumDeltas' = sumDeltas
               /\ cmd'.kind \notin {"rotation", "movement"}
               /\ pc' = "e_loop"
       /\ pc = "e_loop" => pc' = "e_listen"]_vars

\* Small talk was heard and reported as general conversation.
C15_SmallTalkHeard ==
    /\ pc = "e_loop"
    /\ input # NoText
    /\ command_result.is_drone_command = "false"
    /\ printed = "general_conversation"

\* The step of the enhanced loop that handles a stop command.
HandlesStop ==
    /\ pc = "e_listen"
    /\ cmd'.action = "stop"

\* C16: a stop sends a zero-velocity setpoint at the current yaw_heading with
\* no hold and leaves yaw_heading and the offboard mode unchanged; a stop that
\* directly follows a stop sends the same setpoint again.
C16_StopIsIdempotent ==
    [][HandlesStop
        => /\ vehicle'.last = SetVelocity(Zero, Zero, Zero, yaw_heading)
           /\ yaw_heading' = yaw_heading
           /\ sumDeltas' = sumDeltas
           /\ vehicle'.offboard = vehicle.offboard
           /\ hold' = Zero
           /\ pc' = "e_loop"
           /\ cmd.after = "stop" => vehicle'.last = vehicle.last]_vars

\* A stop was handled directly after a stop.
C16_StopAfterStop ==
    /\ pc = "e_loop"
    /\ cmd.action = "stop"
    /\ cmd.after = "stop"
    /\ vehicle.last = SetVelocity(Zero, Zero, Zero, yaw_heading)

\* The step that meets a command whose action or direction is not in the
\* vocabulary of the loop.
MeetsUnknownCommand ==
    failure' \in {"unknown_action", "unsupported_direction"}

\* C17: a command whose action or direction is not in the vocabulary is a
\* no-op in every control loop: a diagnostic is printed, no setpoint or other
\* call goes to the vehicle for it, and yaw_heading and the offboard mode are
\* unchanged.
C17_UnknownCommandIsANoOp ==
    [][MeetsUnknownCommand
        => /\ printed' # "none"
           /\ vehicle' = vehicle
           /\ yaw_heading' = yaw_heading]_vars

\* The step that requests offboard mode: the one taken at a start call.
RequestsStart ==
    /\ pc \in StartPcs \cup {"e_restart"}
    /\ pc' # pc

\* C18: a rejected offboard start is reported and not retried: the program
\* requests offboard mode again only when a later command or menu choice asks
\* for it, so a start request never comes directly after a rejected start
\* request; one voice takeoff command causes no second request after the
\* first was rejected.
C18_RejectedStartIsNotRetried ==
    [][RequestsStart
        => ~(vehicle.last.kind = "offboard.start" /\ ~vehicle.last.ok)]_vars

\* C20: every request to start offboard mode, in every flow, is preceded by
\* a setpoint sent since the session began or since the last offboard stop.
C20_SetpointBeforeEveryStart ==
    /\ pc \in StartPcs \cup {"e_restart"} => vehicle.primed
    /\ vehicle.last.kind = "offboard.start" => vehicle.primed

\* The voice takeoff action has requested offboard mode again after takeoff().
C20_StartAfterVoiceTakeoff ==
    /\ pc = "e_loop"
    /\ cmd.action = "takeoff"
    /\ vehicle.last.kind = "offboard.start"
    /\ vehicle.primed

\* C21: whenever the menu prompts, offboard mode is not active: a control
\* loop or the menu's takeoff that handed control back to the menu, by a
\* return or by an exception the menu catches, has stopped offboard mode
\* after every offboard start that succeeded.
C21_OffboardStoppedAtMenu ==
    pc = "menu" => ~vehicle.offboard

\* The program counters inside a running control loop, from its priming
\* setpoint on; takeoff() counts while the voice takeoff action runs it.
LoopRunning ==
    \/ pc \in {"m_start", "m_read", "m_sleep", "m_zero", "m_loop",
               "e_start", "e_listen", "e_sleep", "e_zero", "e_loop", "e_restart",
               "b_start", "b_listen", "b_sleep", "b_zero", "b_loop"}
    \/ /\ ret = "enhanced"
       /\ pc \in {"takeoff", "takeoff_start", "takeoff_ascend",
                  "takeoff_sleep", "takeoff_zero"}

\* C22: every setpoint sent while a control loop is running carries the
\* loop's accumulated yaw_heading as its yaw, the setpoints of the voice
\* takeoff action after one or more rotations included.
C22_SetpointsCarryLoopHeading ==
    (LoopRunning /\ vehicle.last.kind \in SetpointKinds)
        => vehicle.last.arg.yaw = yaw_heading

\* A step that reads a command in one of the three loops.
ReadsCommand ==
    pc \in {"m_read", "e_listen", "b_listen"} /\ pc' # pc

\* The terminal command that the step has read, "none" when it read another
\* command or none: the typed keyword, the action of a record that is a
\* drone command, the recognised keyword.
TerminalRead ==
    CASE pc = "m_read" /\ ManualBranch(input') \in {"exit", "land"}
            -> ManualBranch(input')
      [] pc = "m_read" /\ ManualBranch(input') = "rth"
            -> "return_home"
      [] pc = "e_listen" /\ IsCommand(command_result')
                        /\ command_result'.action \in Terminals
            -> command_result'.action
      [] pc = "b_listen" /\ BasicBranch(input') \in Terminals
            -> BasicBranch(input')
      [] OTHER -> "none"

C24_ManualClampedVoiceUnclamped ==
    cmd.kind = "movement"
        => /\ InManual
                => /\ cmd.distance = Clamp(SecondNumber(input).v,
                                           <<1, 10>>, R(5))
                   /\ RLe(<<1, 10>>, cmd.distance) /\ RLe(cmd.distance, R(5))
                   /\ RLt(Zero, cmd.duration) /\ RLe(cmd.duration, <<5, 2>>)
           /\ InEnhanced
                => /\ cmd.distance = RecordDistance
                   /\ cmd.distance = Zero => cmd.duration = Zero
                   /\ RLt(cmd.distance, Zero) => RLt(cmd.duration, Zero)
           /\ cmd.held => hold = cmd.duration

\* The enhanced loop has slept on the negative hold of a movement record
\* with distance -1.
C24_NegativeHoldSlept ==
    /\ pc = "e_zero"
    /\ cmd.kind = "movement"
    /\ cmd.distance = R(-1)
    /\ hold = R(-2)

====
